---- MODULE Spec2Model ----
(***************************************************************************)
(* Extended-query execution engine of tokio-postgres: the parameter        *)
(* binder, the prepared-statement entry points (query, execute,            *)
(* query_portal), the ad-hoc path (query_with_param_types and its          *)
(* QueryProcessingState machine), RowStream, and the reference-counted     *)
(* lifetime of a Statement (statement.rs).                                 *)
(*                                                                         *)
(* One caller runs one operation; the connection delivers the replies      *)
(* of that operation's request, in order, into its Responses channel.      *)
(* A closed reply channel (Error::closed) is not modelled: a reader whose  *)
(* channel is empty waits.                                                 *)
(***************************************************************************)
EXTENDS Integers, Sequences, FiniteSets, TLC

\* ------------------------------------------------------------------ bounds
\* longest parameter list a caller supplies / a statement declares
MaxParams == 2
\* replies the connection delivers for one request
MaxReplies == 4
\* Statement handles the caller holds at one time
MaxHandles == 2
\* replies delivered into a reply channel and not yet taken from it
MaxQueue == 2
\* teardown batches the further statements hand to the connection
MaxTeardowns == 2

\* ------------------------------------------------------------- option type
None == << >>
Some(x) == <<x>>

\* ------------------------------------------------------------------ errors
\* Error::parameters(real, expected): the count-mismatch error
ErrorParameters(real, expected) ==
    [kind |-> "Parameters", actual |-> real, expected |-> expected]
\* Error::to_sql(e, idx): a parameter's conversion failed
ErrorToSql(idx) == [kind |-> "ToSql", idx |-> idx]
ErrorEncode == [kind |-> "Encode"]
ErrorParse == [kind |-> "Parse"]
ErrorDb == [kind |-> "Db"]
ErrorClosed == [kind |-> "Closed"]
ErrorUnexpectedMessage == [kind |-> "UnexpectedMessage"]
ErrorGetType == [kind |-> "GetType"]

Ok(v) == [ok |-> TRUE, v |-> v]
Err(e) == [ok |-> FALSE, error |-> e]

\* ------------------------------------------------------- statements, types
\* the name the prepare step gave the prepared statement
Named == "s1"
\* the name of the throwaway statement of the ad-hoc path
Unnamed == ""
StmtNames == {Named, Unnamed}
PortalName == "p1"

Types == {"int4", "text"}
\* Type::oid()
Oid(ty) == IF ty = "int4" THEN 23 ELSE 25

\* the declared parameter types of the prepared statement with n parameters
DeclaredTypes(n) == [i \in 1..n |-> IF i % 2 = 1 THEN "int4" ELSE "text"]

\* ------------------------------------------------------ parameter values
\* A caller's parameter value, by what its BorrowToSql/ToSql does:
\*   fmt: the wire format encode_format(ty) prefers (0 text, 1 binary)
\*   out: what to_sql_checked(ty, buf) returns: IsNull::No, IsNull::Yes, an
\*        error ("Err"), or IsNull::No after writing more than i32::MAX bytes
\*        ("Big"), which the protocol encoder cannot frame.
ParamValues ==
    { [fmt |-> 1, out |-> "No"], [fmt |-> 0, out |-> "Yes"],
      [fmt |-> 1, out |-> "Err"], [fmt |-> 1, out |-> "Big"] }

SeqsUpTo(S, n) == UNION { [1..k -> S] : k \in 0..n }
ParamLists == SeqsUpTo(ParamValues, MaxParams)
TypeLists == SeqsUpTo(Types, MaxParams)

\* ToSql::encode_format(ty)
EncodeFormat(p, ty) == p.fmt
\* ToSql::to_sql_checked(ty, buf)
ToSqlChecked(p, ty) == p.out

\* ------------------------------------------------------ frontend messages
MsgParse(name, query, oids) ==
    [t |-> "Parse", name |-> name, query |-> query, oids |-> oids]
MsgBind(portal, statement, formats, values) ==
    [t |-> "Bind", portal |-> portal, statement |-> statement,
     formats |-> formats, values |-> values, result_formats |-> <<1>>]
\* what frontend::bind has appended when it fails part-way
MsgBindPartial(portal, statement, formats, values) ==
    [t |-> "BindPartial", portal |-> portal, statement |-> statement,
     formats |-> formats, values |-> values]
MsgDescribe(variant, name) == [t |-> "Describe", variant |-> variant, name |-> name]
MsgExecute(portal, max_rows) == [t |-> "Execute", portal |-> portal, max_rows |-> max_rows]
MsgSync == [t |-> "Sync"]
MsgClose(variant, name) == [t |-> "Close", variant |-> variant, name |-> name]

\* the messages an operation puts in its own request batch
RequestTags == {"Parse", "Bind", "BindPartial", "Describe", "Execute"}

\* ------------------------------------------------------- parameter binder
\* The serializer closure encode_bind hands to frontend::bind: it runs
\* to_sql_checked on one parameter and, on failure, records the index.
SerializerKeepIdx(idx, p, ty, error_idx) ==
    [res |-> ToSqlChecked(p, ty), error_idx |-> error_idx]
Serializer(idx, p, ty, error_idx) ==
    LET r == ToSqlChecked(p, ty)
    IN  IF r = "Err"
        THEN [res |-> "Err", error_idx |-> idx]
        ELSE [res |-> r, error_idx |-> error_idx]

\* frontend::bind's loop over the values: each value goes through the
\* serializer in order; the first failure ends the loop.  i is 1-based, the
\* index the closure sees is i - 1.
RECURSIVE BindValues(_, _, _, _, _, _)
BindValues(params, types, i, error_idx, written, calls) ==
    IF i > Len(params)
    THEN [err |-> "", error_idx |-> error_idx, written |-> written, calls |-> calls]
    ELSE LET s == Serializer(i - 1, params[i], types[i], error_idx)
             c == Append(calls, i - 1)
         IN  CASE s.res = "Err" ->
                    [err |-> "Conversion", error_idx |-> s.error_idx,
                     written |-> written, calls |-> c]
               [] s.res = "Big" ->
                    [err |-> "Serialization", error_idx |-> s.error_idx,
                     written |-> written, calls |-> c]
               [] OTHER ->
                    BindValues(params, types, i + 1, s.error_idx,
                               Append(written, IF s.res = "Yes" THEN "null" ELSE "value"),
                               c)

\* The length check that opens encode_bind_with_statement_name_and_param_types.
CountCheckSwapped(param_types, params) ==
    IF Len(param_types) # Len(params)
    THEN Err(ErrorParameters(Len(param_types), Len(params)))
    ELSE Ok("same")
CountCheck(param_types, params) ==
    IF Len(param_types) # Len(params)
    THEN Err(ErrorParameters(Len(params), Len(param_types)))
    ELSE Ok("same")

\* encode_bind_with_statement_name_and_param_types: the result, the buffer
\* afterwards, and the indices whose encode_format / to_sql_checked ran.
EncodeBindWith(statement_name, param_types, params, portal, buf) ==
    IF ~CountCheck(param_types, params).ok
    THEN [res |-> CountCheck(param_types, params), buf |-> buf,
          fmtCalls |-> << >>, toSqlCalls |-> << >>]
    ELSE LET n == Len(params)
             param_formats == [i \in 1..n |-> EncodeFormat(params[i], param_types[i])]
             fmtCalls == [i \in 1..n |-> i - 1]
             r == BindValues(params, param_types, 1, 0, << >>, << >>)
             partial == Append(buf, MsgBindPartial(portal, statement_name,
                                                   param_formats, r.written))
         IN  CASE r.err = "" ->
                    [res |-> Ok("bound"),
                     buf |-> Append(buf, MsgBind(portal, statement_name,
                                                 param_formats, r.written)),
                     fmtCalls |-> fmtCalls, toSqlCalls |-> r.calls]
               [] r.err = "Conversion" ->
                    [res |-> Err(ErrorToSql(r.error_idx)), buf |-> partial,
                     fmtCalls |-> fmtCalls, toSqlCalls |-> r.calls]
               [] OTHER ->
                    [res |-> Err(ErrorEncode), buf |-> partial,
                     fmtCalls |-> fmtCalls, toSqlCalls |-> r.calls]

\* encode_bind: binds against a Statement's name and declared types
EncodeBind(stmtName, stmtParams, params, portal, buf) ==
    EncodeBindWith(stmtName, stmtParams, params, portal, buf)

\* encode: Bind, Execute(unnamed portal, no row limit), Sync in the client's
\* buffer; the closure's result and the buffer it leaves.
Encode(stmtName, stmtParams, params, buf) ==
    LET b == EncodeBind(stmtName, stmtParams, params, "", buf)
    IN  IF ~b.res.ok
        THEN [res |-> b.res, buf |-> b.buf, bind |-> b]
        ELSE [res |-> Ok(b.buf \o <<MsgExecute("", 0), MsgSync>>), buf |-> << >>,
              bind |-> b]

\* InnerClient::with_buf: the closure's result; the buffer is cleared on
\* every exit path.
WithBuf(closure) == [res |-> closure.res, buf |-> << >>]

\* ------------------------------------------------------- backend messages
\* RowDescription fields.  readable: whether the fields() iterator can read
\* the field from the message body.
FieldA == [name |-> "a", type_oid |-> 23, table_oid |-> 0, column_id |-> 0, readable |-> TRUE]
FieldB == [name |-> "b", type_oid |-> 25, table_oid |-> 7, column_id |-> 1, readable |-> TRUE]
FieldC == [name |-> "c", type_oid |-> 25, table_oid |-> 7, column_id |-> 0, readable |-> FALSE]
FieldD == [name |-> "d", type_oid |-> 23, table_oid |-> 7, column_id |-> 0, readable |-> TRUE]
FieldLists ==
    { << >>, <<FieldA>>, <<FieldA, FieldB>>, <<FieldB, FieldA>>, <<FieldB, FieldC>>,
      <<FieldD, FieldB>> }
FieldOids == {FieldA.type_oid, FieldB.type_oid, FieldC.type_oid}

\* Command tags, as character sequences.  valid: whether
\* CommandCompleteBody::tag() can read the tag as text.
TagSelect2 == <<"S", " ", "2">>
TagInsert01 == <<"I", " ", "0", " ", "1">>
TagNoCount == <<"S">>
StreamTags == {TagSelect2, TagInsert01, TagNoCount}
TagEmpty == << >>
TagNotNumber == <<"U", " ", "x">>
TagUpdate12 == <<"U", " ", "1", "2">>
ExecTags == StreamTags \cup {TagEmpty, TagNotNumber, TagUpdate12}

BParseComplete == [t |-> "ParseComplete"]
BBindComplete == [t |-> "BindComplete"]
BParameterDescription == [t |-> "ParameterDescription"]
BRowDescription(fields) == [t |-> "RowDescription", fields |-> fields]
BNoData == [t |-> "NoData"]
\* id: the row's payload; ok: whether Row::new can read the body
BDataRow(id, ok) == [t |-> "DataRow", id |-> id, ok |-> ok]
BCommandComplete(tag, valid) == [t |-> "CommandComplete", tag |-> tag, valid |-> valid]
BEmptyQueryResponse == [t |-> "EmptyQueryResponse"]
BPortalSuspended == [t |-> "PortalSuspended"]
BReadyForQuery == [t |-> "ReadyForQuery"]
BErrorResponse == [t |-> "ErrorResponse"]

RowIds == {1, 2}

\* Responses::next / poll_next: the next reply of the request; an
\* ErrorResponse comes out as the server's error.
ResponsesNext(m) == IF m.t = "ErrorResponse" THEN Err(ErrorDb) ELSE Ok(m)

\* ------------------------------------------------- extract_row_affected
Digits == <<"0", "1", "2", "3", "4", "5", "6", "7", "8", "9">>
IsDigit(c) == \E d \in 1..10 : Digits[d] = c
DigitVal(c) == (CHOOSE d \in 1..10 : Digits[d] = c) - 1

\* str::rsplit(' ').next(): the text after the last space (all of it when
\* there is none)
RECURSIVE LastToken(_)
LastToken(s) ==
    IF s = << >> THEN << >>
    ELSE IF s[Len(s)] = " " THEN << >>
    ELSE Append(LastToken(SubSeq(s, 1, Len(s) - 1)), s[Len(s)])

RECURSIVE DigitsValue(_)
DigitsValue(s) ==
    IF s = << >> THEN 0
    ELSE 10 * DigitsValue(SubSeq(s, 1, Len(s) - 1)) + DigitVal(s[Len(s)])

\* u64::from_str: an optional '+', then at least one digit, digits only
ParseU64(tok) ==
    LET body == IF tok # << >> /\ tok[1] = "+" THEN Tail(tok) ELSE tok
    IN  IF body # << >> /\ \A i \in 1..Len(body) : IsDigit(body[i])
        THEN Ok(DigitsValue(body))
        ELSE Err("ParseIntError")

ExtractRowAffected(body) ==
    IF ~body.valid
    THEN Err(ErrorParse)
    ELSE LET r == ParseU64(LastToken(body.tag))
         IN  Ok(IF r.ok THEN r.v ELSE 0)

\* -------------------------------------------------- QueryProcessingState
QEmpty == [tag |-> "Empty"]
QParseCompleted == [tag |-> "ParseCompleted"]
QBindCompleted == [tag |-> "BindCompleted"]
QParameterDescribed == [tag |-> "ParameterDescribed"]
QFinal(columns) == [tag |-> "Final", columns |-> columns]

TypeOfOid(oid) == IF oid = 23 THEN "int4" ELSE "text"

\* get_type(client, oid): the catalog's answer; known is the set of type
\* identifiers the catalog can resolve when it is asked.
GetType(oid, known) == IF oid \in known THEN Ok(TypeOfOid(oid)) ELSE Err(ErrorGetType)

\* The Column form_final builds from one field.
OptNonZero(n) == IF n # 0 THEN Some(n) ELSE None
ColumnOfKeepZero(field, type_) ==
    [name |-> field.name, table_oid |-> Some(field.table_oid),
     column_id |-> Some(field.column_id), type |-> type_]
ColumnOf(field, type_) ==
    [name |-> field.name, table_oid |-> OptNonZero(field.table_oid),
     column_id |-> OptNonZero(field.column_id), type |-> type_]

\* form_final's loop over the fields of a RowDescription
RECURSIVE FormColumns(_, _, _, _)
FormColumns(fields, i, known, columns) ==
    IF i > Len(fields) THEN Ok(columns)
    ELSE IF ~fields[i].readable THEN Err(ErrorParse)
    ELSE LET ty == GetType(fields[i].type_oid, known)
         IN  IF ~ty.ok THEN Err(ty.error)
             ELSE FormColumns(fields, i + 1, known,
                              Append(columns, ColumnOf(fields[i], ty.v)))

\* form_final(client, row_description): None is NoData
FormFinal(row_description, known) ==
    IF row_description = None
    THEN Ok(QFinal(<< >>))
    ELSE LET c == FormColumns(row_description[1], 1, known, << >>)
         IN  IF c.ok THEN Ok(QFinal(c.v)) ELSE c

\* QueryProcessingState::process_message
ProcessMessageLenient(self, message, known) ==
    CASE message.t = "ParseComplete" -> Ok(QParseCompleted)
      [] message.t = "BindComplete" -> Ok(QBindCompleted)
      [] message.t = "ParameterDescription" -> Ok(QParameterDescribed)
      [] message.t = "RowDescription" -> FormFinal(Some(message.fields), known)
      [] message.t = "NoData" -> FormFinal(None, known)
      [] message.t = "ErrorResponse" -> Err(ErrorDb)
      [] OTHER -> Err(ErrorUnexpectedMessage)
ProcessMessage(self, message, known) ==
    CASE self.tag = "Empty" /\ message.t = "ParseComplete" -> Ok(QParseCompleted)
      [] self.tag = "ParseCompleted" /\ message.t = "BindComplete" -> Ok(QBindCompleted)
      [] self.tag = "BindCompleted" /\ message.t = "ParameterDescription" ->
            Ok(QParameterDescribed)
      [] self.tag = "ParameterDescribed" /\ message.t = "RowDescription" ->
            FormFinal(Some(message.fields), known)
      [] self.tag = "ParameterDescribed" /\ message.t = "NoData" ->
            FormFinal(None, known)
      [] message.t = "ErrorResponse" -> Err(ErrorDb)
      [] OTHER -> Err(ErrorUnexpectedMessage)

\* ------------------------------------------------------------- RowStream
\* Row::new(statement, body)
RowNew(body) == IF body.ok THEN Ok(body.id) ELSE Err(ErrorParse)

ItemPending == [item |-> "Pending"]
ItemEnd == [item |-> "End"]
ItemRow(id) == [item |-> "Row", id |-> id]
ItemErr(e) == [item |-> "Err", error |-> e]

\* poll_next's CommandComplete arm: the rows_affected it leaves
OnCommandCompleteKeep(ra, m) == Ok(ra)
OnCommandComplete(ra, m) ==
    IF ExtractRowAffected(m).ok THEN Ok(Some(ExtractRowAffected(m).v))
    ELSE Err(ExtractRowAffected(m).error)

\* poll_next's arm for the replies it passes over
SkipsOnlyEmpty(m) == m.t = "EmptyQueryResponse"
Skips(m) == m.t \in {"EmptyQueryResponse", "PortalSuspended"}

\* what is left in the channel when poll_next returns: all but the reply it
\* took last
UnreadNone(q) == << >>
Unread(q) == Tail(q)

\* RowStream::poll_next's loop: takes replies from the channel q until it
\* returns.  Gives the returned item, the channel and rows_affected
\* afterwards, and the replies this poll took.
RECURSIVE PollLoop(_, _, _)
PollLoop(q, ra, taken) ==
    IF q = << >>
    THEN [item |-> ItemPending, q |-> q, ra |-> ra, taken |-> taken]
    ELSE LET m == Head(q)
             r == ResponsesNext(m)
             t == Append(taken, m)
             ret(item, ra2) == [item |-> item, q |-> Unread(q), ra |-> ra2, taken |-> t]
         IN  IF ~r.ok THEN ret(ItemErr(r.error), ra)
             ELSE CASE m.t = "DataRow" ->
                         (IF RowNew(m).ok THEN ret(ItemRow(RowNew(m).v), ra)
                                          ELSE ret(ItemErr(RowNew(m).error), ra))
                    [] m.t = "CommandComplete" ->
                         (IF OnCommandComplete(ra, m).ok
                          THEN PollLoop(Tail(q), OnCommandComplete(ra, m).v, t)
                          ELSE ret(ItemErr(OnCommandComplete(ra, m).error), ra))
                    [] Skips(m) -> PollLoop(Tail(q), ra, t)
                    [] m.t = "ReadyForQuery" -> ret(ItemEnd, ra)
                    [] OTHER -> ret(ItemErr(ErrorUnexpectedMessage), ra)

\* ------------------------------------------------------------------ state
VARIABLES
    clientAlive,    \* the Arc<InnerClient> still has an owner (Weak::upgrade works)
    connOpen,       \* the connection takes requests (InnerClient::send succeeds)
    sent,           \* the batches handed to the connection, in order
    buf,            \* the client's reusable encoding buffer
    stmtParams,     \* the prepared Statement's declared parameter types
    strong,         \* per StatementInner, the Arc's strong count
    callerHandles,  \* handles of the prepared Statement the caller owns
    pc,             \* where the caller's operation is
    op,             \* the operation called
    opHolds,        \* the running query/execute owns its Statement argument
    result,         \* what the operation returned
    responses,      \* the request's reply channel: delivered, not yet taken
    consumed,       \* the replies the operation itself took (start, execute, ad-hoc loop)
    qstate,         \* query_with_param_types' QueryProcessingState
    rows,           \* execute's running count
    streamAlive,    \* the RowStream exists
    streamStmt,     \* the Statement the RowStream holds
    rows_affected,  \* RowStream.rows_affected
    pulled,         \* the replies the RowStream took, over all polls
    yielded,        \* the items poll_next returned Ready, in order
    lastPoll,       \* what the last poll_next returned and the replies it took
    liveRows,       \* the Rows the stream yielded that are still alive
    bindLog,        \* the last call of the parameter binder
    others,         \* per name, the Arc's strong count of a further Statement
    teardown        \* the last run of Drop for StatementInner on one of those

vars ==
    <<clientAlive, connOpen, sent, buf, stmtParams, strong, callerHandles, pc, op,
      opHolds, result, responses, consumed, qstate, rows, streamAlive, streamStmt,
      rows_affected, pulled, yielded, lastPoll, liveRows, bindLog, others, teardown>>

connVars == <<clientAlive, connOpen>>
streamVars == <<streamAlive, streamStmt, rows_affected, pulled, yielded, lastPoll, liveRows>>
dropVars == <<others, teardown>>

NoResult == [status |-> "none"]
ResultErr(e) == [status |-> "err", error |-> e]
ResultStream == [status |-> "stream"]
ResultRows(n) == [status |-> "rows", n |-> n]
NoPoll == [item |-> [item |-> "none"], taken |-> << >>]
NoBind == [called |-> FALSE]
NoTeardown == [ran |-> FALSE]

\* Names Statement::new can be given for a further statement: an ordinary
\* name, the empty name, and a name frontend::close cannot write
OtherName == "s2"
NameWithNul == "s<NUL>"
DropNames == {OtherName, Unnamed, NameWithNul}

\* Statement::new (by the prepare step): one handle, owned by the caller, with
\* a weak reference to the client.
Init ==
    /\ clientAlive = TRUE
    /\ connOpen = TRUE
    /\ sent = << >>
    /\ buf = << >>
    /\ stmtParams \in { DeclaredTypes(n) : n \in 0..MaxParams }
    /\ strong = [s \in StmtNames |-> IF s = Named THEN 1 ELSE 0]
    /\ callerHandles = 1
    /\ pc = "idle"
    /\ op = "none"
    /\ opHolds = FALSE
    /\ result = NoResult
    /\ responses = << >>
    /\ consumed = << >>
    /\ qstate = QEmpty
    /\ rows = 0
    /\ streamAlive = FALSE
    /\ streamStmt = "none"
    /\ rows_affected = None
    /\ pulled = << >>
    /\ yielded = << >>
    /\ lastPoll = NoPoll
    /\ liveRows = 0
    /\ bindLog = NoBind
    /\ others = [n \in DropNames |-> 0]
    /\ teardown = NoTeardown

\* ---------------------------------------------------- connection, lifetime
\* InnerClient::send: hands one batch to the connection
ClientSend(batch, sn) ==
    IF connOpen THEN [ok |-> TRUE, sent |-> Append(sn, batch)]
    ELSE [ok |-> FALSE, sent |-> sn]

\* Whether the StatementInner holds a weak reference to a client:
\* Statement::new downgrades the client it is given, Statement::unnamed is
\* given none.
HasClient(name) == name = Named

\* frontend::close: appends Close(variant, name) to the buffer, or fails when
\* the name cannot be written
FrontendClose(variant, name, b) ==
    IF name = NameWithNul THEN Err("io")
    ELSE Ok(Append(b, MsgClose(variant, name)))

\* the buffer the closure of drop returns: frontend::sync after the Close
TeardownBatchNoSync(closed) == closed
TeardownBatch(closed) == Append(closed, MsgSync)

\* The body of drop.  upgraded: self.client.upgrade() gave the client.
\* `frontend::close(..).unwrap()` panics when close fails; `let _ =` discards
\* what client.send returns, the reply channel or the error.
DropOutcome(upgraded, name, sn) ==
    IF ~upgraded
    THEN [panicked |-> FALSE, sends |-> << >>, sendOk |-> TRUE, sent |-> sn]
    ELSE LET c == FrontendClose("S", name, << >>)
         IN  IF ~c.ok
             THEN [panicked |-> TRUE, sends |-> << >>, sendOk |-> TRUE, sent |-> sn]
             ELSE LET s == ClientSend(TeardownBatch(c.v), sn)
                  IN  [panicked |-> FALSE, sends |-> <<TeardownBatch(c.v)>>,
                       sendOk |-> s.ok, sent |-> s.sent]

\* Drop for StatementInner: Close and Sync, sent if the client still exists;
\* the send's result is discarded.
StatementInnerDropAlways(name, sn) ==
    ClientSend(<<MsgClose("S", name), MsgSync>>, sn).sent
StatementInnerDrop(name, sn) ==
    DropOutcome(HasClient(name) /\ clientAlive, name, sn).sent

\* Dropping one Statement handle: the Arc's count goes down, and the
\* StatementInner is dropped with the last one (#[derive(Clone)] Statement(Arc<..>)).
ArcDropEager(name, st, sn) ==
    [strong |-> [st EXCEPT ![name] = @ - 1], sent |-> StatementInnerDrop(name, sn)]
ArcDrop(name, st, sn) ==
    [strong |-> [st EXCEPT ![name] = @ - 1],
     sent |-> IF st[name] = 1 THEN StatementInnerDrop(name, sn) ELSE sn]

\* Statement::clone
ArcClone(name, st) == [st EXCEPT ![name] = @ + 1]

\* the caller clones a handle it owns
CloneHandle ==
    /\ callerHandles >= 1
    /\ callerHandles < MaxHandles
    /\ callerHandles' = callerHandles + 1
    /\ strong' = ArcClone(Named, strong)
    /\ UNCHANGED <<connVars, sent, buf, stmtParams, dropVars, pc, op, opHolds, result, responses,
                   consumed, qstate, rows, streamVars, bindLog>>

\* the caller drops a handle it owns
DropHandle ==
    /\ callerHandles >= 1
    /\ callerHandles' = callerHandles - 1
    /\ LET d == ArcDrop(Named, strong, sent)
       IN  strong' = d.strong /\ sent' = d.sent
    /\ UNCHANGED <<connVars, buf, stmtParams, dropVars, pc, op, opHolds, result, responses,
                   consumed, qstate, rows, streamVars, bindLog>>

\* Statement::new, by the prepare step, for a further statement
NewStatement(name) ==
    /\ clientAlive
    /\ others[name] = 0
    /\ Len(sent) < MaxTeardowns
    /\ others' = [others EXCEPT ![name] = 1]
    /\ UNCHANGED <<connVars, sent, buf, stmtParams, strong, callerHandles, pc, op,
                   opHolds, result, responses, consumed, qstate, rows, streamVars,
                   bindLog, teardown>>

\* Statement::clone on a handle of a further statement
CloneOther(name) ==
    /\ others[name] >= 1
    /\ others[name] < MaxHandles
    /\ others' = [others EXCEPT ![name] = @ + 1]
    /\ UNCHANGED <<connVars, sent, buf, stmtParams, strong, callerHandles, pc, op,
                   opHolds, result, responses, consumed, qstate, rows, streamVars,
                   bindLog, teardown>>

\* a handle of a further statement is dropped; drop runs with the last one
DropOther(name) ==
    /\ others[name] >= 1
    /\ others' = [others EXCEPT ![name] = @ - 1]
    /\ IF others[name] = 1
       THEN LET o == DropOutcome(clientAlive, name, sent)
            IN  /\ sent' = o.sent
                /\ teardown' = [ran |-> TRUE, name |-> name, upgraded |-> clientAlive,
                                panicked |-> o.panicked, sends |-> o.sends,
                                sendOk |-> o.sendOk]
       ELSE UNCHANGED <<sent, teardown>>
    /\ UNCHANGED <<connVars, buf, stmtParams, strong, callerHandles, pc, op,
                   opHolds, result, responses, consumed, qstate, rows, streamVars,
                   bindLog>>

\* the last owner of the client goes away; no call is borrowing it
DropClient ==
    /\ clientAlive
    /\ pc \notin {"start", "exec", "adhoc"}
    /\ clientAlive' = FALSE
    /\ UNCHANGED <<connOpen, sent, buf, stmtParams, dropVars, strong, callerHandles, pc, op,
                   opHolds, result, responses, consumed, qstate, rows, streamVars,
                   bindLog>>

\* the connection stops taking requests
CloseConn ==
    /\ connOpen
    /\ connOpen' = FALSE
    /\ UNCHANGED <<clientAlive, sent, buf, stmtParams, dropVars, strong, callerHandles, pc, op,
                   opHolds, result, responses, consumed, qstate, rows, streamVars,
                   bindLog>>

\* the connection delivers the request's next reply
Waiting == pc \in {"start", "exec", "adhoc"} \/ (pc = "stream" /\ streamAlive)
ServerReply(m) ==
    /\ Waiting
    /\ connOpen
    /\ Len(responses) < MaxQueue
    /\ CASE pc = "stream" -> Len(pulled) + Len(responses) < MaxReplies
         [] pc = "adhoc" -> Len(consumed) + Len(responses) <= MaxReplies
         [] OTHER -> Len(consumed) + Len(responses) < MaxReplies
    /\ responses' = Append(responses, m)
    /\ UNCHANGED <<connVars, sent, buf, stmtParams, dropVars, strong, callerHandles, pc, op,
                   opHolds, result, consumed, qstate, rows, streamVars, bindLog>>

\* ----------------------------------------------------------- entry points
\* `let buf = client.with_buf(closure)?; client.send(buf)?`: the batch goes to
\* the connection only when the closure built it.
SubmitUnchecked(closure, sn) ==
    IF ~closure.res.ok
    THEN [ok |-> FALSE, error |-> closure.res.error, sent |-> Append(sn, closure.buf)]
    ELSE [ok |-> TRUE, sent |-> Append(sn, closure.res.v)]
Submit(closure, sn) ==
    LET w == WithBuf(closure)
    IN  IF ~w.res.ok
        THEN [ok |-> FALSE, error |-> w.res.error, sent |-> sn]
        ELSE LET s == ClientSend(w.res.v, sn)
             IN  IF s.ok THEN [ok |-> TRUE, sent |-> s.sent]
                 ELSE [ok |-> FALSE, error |-> ErrorClosed, sent |-> sn]

BindLogOf(types, params, before, b) ==
    [called |-> TRUE, types |-> types, params |-> params, before |-> before,
     after |-> b.buf, res |-> b.res, fmtCalls |-> b.fmtCalls, toSqlCalls |-> b.toSqlCalls]

\* The operation returns Err(e): its reply channel is dropped, and so is the
\* Statement it owns (holds).
Fail(e, holds, sn) ==
    /\ result' = ResultErr(e)
    /\ pc' = "done"
    /\ opHolds' = FALSE
    /\ responses' = << >>
    /\ LET d == IF holds THEN ArcDrop(Named, strong, sn)
                ELSE [strong |-> strong, sent |-> sn]
       IN  strong' = d.strong /\ sent' = d.sent

\* What query and execute share up to start's first await: encode the batch,
\* send it.  The caller hands over one of its handles.
CallPrepared(params) ==
    /\ pc = "idle"
    /\ clientAlive
    /\ callerHandles >= 1
    /\ callerHandles' = callerHandles - 1
    /\ LET closure == Encode(Named, stmtParams, params, buf)
           s == Submit(closure, sent)
       IN  /\ bindLog' = BindLogOf(stmtParams, params, buf, closure.bind)
           /\ buf' = WithBuf(closure).buf
           /\ IF s.ok
              THEN /\ sent' = s.sent
                   /\ pc' = "start"
                   /\ opHolds' = TRUE
                   /\ UNCHANGED <<strong, result, responses>>
              ELSE Fail(s.error, TRUE, s.sent)
    /\ UNCHANGED <<connVars, stmtParams, dropVars, consumed, qstate, rows, streamVars>>

\* query, up to start's first await
Query(params) ==
    /\ op' = "query"
    /\ CallPrepared(params)

\* execute, up to start's first await
Execute(params) ==
    /\ op' = "execute"
    /\ CallPrepared(params)

\* start's match on its first reply
StartMatchAny(m) == TRUE
StartMatch(m) == m.t = "BindComplete"

\* start's `responses.next().await?` and its match: BindComplete or nothing.
\* query then returns the RowStream; execute enters its loop.
StartReply ==
    /\ pc = "start"
    /\ responses # << >>
    /\ LET m == Head(responses)
           r == ResponsesNext(m)
       IN  /\ consumed' = Append(consumed, m)
           /\ IF ~r.ok THEN /\ Fail(r.error, TRUE, sent)
                            /\ UNCHANGED <<streamAlive, streamStmt>>
              ELSE IF ~StartMatch(m)
              THEN /\ Fail(ErrorUnexpectedMessage, TRUE, sent)
                   /\ UNCHANGED <<streamAlive, streamStmt>>
              ELSE IF op = "query"
              THEN /\ pc' = "stream"
                   /\ result' = ResultStream
                   /\ opHolds' = FALSE
                   /\ streamAlive' = TRUE
                   /\ streamStmt' = Named
                   /\ responses' = Tail(responses)
                   /\ UNCHANGED <<strong, sent>>
              ELSE /\ pc' = "exec"
                   /\ responses' = Tail(responses)
                   /\ UNCHANGED <<strong, sent, result, opHolds, streamAlive, streamStmt>>
    /\ UNCHANGED <<connVars, buf, stmtParams, dropVars, callerHandles, op, qstate, rows,
                   rows_affected, pulled, yielded, lastPoll, liveRows, bindLog>>

\* the match in execute's loop: what one reply does to the running count
ExecuteArmKeepsCount(n, m) ==
    CASE m.t = "DataRow" -> [k |-> "loop", rows |-> n]
      [] m.t = "CommandComplete" ->
            (IF ExtractRowAffected(m).ok
             THEN [k |-> "loop", rows |-> ExtractRowAffected(m).v]
             ELSE [k |-> "err", error |-> ExtractRowAffected(m).error])
      [] m.t = "EmptyQueryResponse" -> [k |-> "loop", rows |-> n]
      [] m.t = "ReadyForQuery" -> [k |-> "ret", rows |-> n]
      [] OTHER -> [k |-> "err", error |-> ErrorUnexpectedMessage]
ExecuteArm(n, m) ==
    CASE m.t = "DataRow" -> [k |-> "loop", rows |-> n]
      [] m.t = "CommandComplete" ->
            (IF ExtractRowAffected(m).ok
             THEN [k |-> "loop", rows |-> ExtractRowAffected(m).v]
             ELSE [k |-> "err", error |-> ExtractRowAffected(m).error])
      [] m.t = "EmptyQueryResponse" -> [k |-> "loop", rows |-> 0]
      [] m.t = "ReadyForQuery" -> [k |-> "ret", rows |-> n]
      [] OTHER -> [k |-> "err", error |-> ErrorUnexpectedMessage]

\* one turn of execute's loop
ExecuteReply ==
    /\ pc = "exec"
    /\ responses # << >>
    /\ LET m == Head(responses)
           r == ResponsesNext(m)
           arm == ExecuteArm(rows, m)
       IN  /\ consumed' = Append(consumed, m)
           /\ IF ~r.ok THEN Fail(r.error, TRUE, sent) /\ UNCHANGED rows
              ELSE CASE arm.k = "loop" ->
                          /\ rows' = arm.rows
                          /\ responses' = Tail(responses)
                          /\ UNCHANGED <<pc, result, opHolds, strong, sent>>
                     [] arm.k = "ret" ->
                          /\ result' = ResultRows(arm.rows)
                          /\ pc' = "done"
                          /\ opHolds' = FALSE
                          /\ responses' = << >>
                          /\ LET d == ArcDrop(Named, strong, sent)
                             IN  strong' = d.strong /\ sent' = d.sent
                          /\ UNCHANGED rows
                     [] OTHER -> Fail(arm.error, TRUE, sent) /\ UNCHANGED rows
    /\ UNCHANGED <<connVars, buf, stmtParams, dropVars, callerHandles, op, qstate, streamVars,
                   bindLog>>

\* A (value, type) pair list of query_with_param_types
TypedParams == [p : ParamValues, ty : Types]
TypedLists == SeqsUpTo(TypedParams, MaxParams)

\* what the closure of query_with_param_types appends after Parse and Bind
TypedTailExecuteFirst == <<MsgExecute("", 0), MsgDescribe("S", ""), MsgSync>>
TypedTail == <<MsgDescribe("S", ""), MsgExecute("", 0), MsgSync>>

\* The closure query_with_param_types runs in with_buf.  queryOk: whether
\* frontend::parse can encode the query text.
EncodeTyped(queryOk, typed, b0) ==
    LET n == Len(typed)
        params == [i \in 1..n |-> typed[i].p]
        param_types == [i \in 1..n |-> typed[i].ty]
        param_oids == [i \in 1..n |-> Oid(param_types[i])]
        b1 == Append(b0, MsgParse("", "query", param_oids))
        b == EncodeBindWith("", param_types, params, "", b1)
        none == [res |-> Ok("unbound"), buf |-> b0, fmtCalls |-> << >>,
                 toSqlCalls |-> << >>]
    IN  IF ~queryOk
        THEN [res |-> Err(ErrorParse), buf |-> b0, bind |-> none,
              types |-> param_types, params |-> params, before |-> b0]
        ELSE IF ~b.res.ok
        THEN [res |-> b.res, buf |-> b.buf, bind |-> b,
              types |-> param_types, params |-> params, before |-> b1]
        ELSE [res |-> Ok(b.buf \o TypedTail),
              buf |-> << >>, bind |-> b,
              types |-> param_types, params |-> params, before |-> b1]

\* query_with_param_types up to its first await
QueryTyped(queryOk, typed) ==
    /\ pc = "idle"
    /\ clientAlive
    /\ op' = "query_typed"
    /\ LET closure == EncodeTyped(queryOk, typed, buf)
           s == Submit(closure, sent)
       IN  /\ bindLog' = IF queryOk
                         THEN BindLogOf(closure.types, closure.params, closure.before,
                                        closure.bind)
                         ELSE bindLog
           /\ buf' = WithBuf(closure).buf
           /\ IF s.ok
              THEN /\ sent' = s.sent
                   /\ pc' = "adhoc"
                   /\ qstate' = QEmpty
                   /\ UNCHANGED <<strong, result, responses, opHolds>>
              ELSE Fail(s.error, FALSE, s.sent) /\ UNCHANGED qstate
    /\ UNCHANGED <<connVars, stmtParams, dropVars, callerHandles, consumed, rows, streamVars>>

\* one turn of query_with_param_types' loop: take a reply, feed it to
\* process_message, return the RowStream on Final.
AdhocReply(known) ==
    /\ pc = "adhoc"
    /\ responses # << >>
    /\ LET m == Head(responses)
           r == ResponsesNext(m)
           next == ProcessMessage(qstate, m, known)
       IN  /\ consumed' = Append(consumed, m)
           /\ IF ~r.ok
              THEN Fail(r.error, FALSE, sent) /\ UNCHANGED <<qstate, streamAlive, streamStmt>>
              ELSE IF ~next.ok
              THEN Fail(next.error, FALSE, sent)
                   /\ UNCHANGED <<qstate, streamAlive, streamStmt>>
              ELSE /\ qstate' = next.v
                   /\ responses' = Tail(responses)
                   /\ IF next.v.tag = "Final"
                      THEN /\ pc' = "stream"
                           /\ result' = ResultStream
                           /\ streamAlive' = TRUE
                           /\ streamStmt' = Unnamed
                           /\ strong' = ArcClone(Unnamed, strong)
                           /\ UNCHANGED <<sent, opHolds>>
                      ELSE UNCHANGED <<pc, result, streamAlive, streamStmt, strong, sent,
                                       opHolds>>
    /\ UNCHANGED <<connVars, buf, stmtParams, dropVars, callerHandles, op, rows, rows_affected,
                   pulled, yielded, lastPoll, liveRows, bindLog>>

\* query_portal: Execute(portal, max_rows) and Sync, then a RowStream over a
\* clone of the portal's Statement.  The Portal's Statement handle is one of
\* the caller's.
MaxRowsArgs == {0, 1}
QueryPortal(max_rows) ==
    /\ pc = "idle"
    /\ clientAlive
    /\ callerHandles >= 1
    /\ op' = "query_portal"
    /\ LET closure == [res |-> Ok(<<MsgExecute(PortalName, max_rows), MsgSync>>),
                       buf |-> << >>]
           s == Submit(closure, sent)
       IN  IF s.ok
           THEN /\ sent' = s.sent
                /\ pc' = "stream"
                /\ result' = ResultStream
                /\ streamAlive' = TRUE
                /\ streamStmt' = Named
                /\ strong' = ArcClone(Named, strong)
                /\ UNCHANGED <<responses, opHolds>>
           ELSE Fail(s.error, FALSE, s.sent) /\ UNCHANGED <<streamAlive, streamStmt>>
    /\ UNCHANGED <<connVars, buf, stmtParams, dropVars, callerHandles, consumed, qstate, rows,
                   rows_affected, pulled, yielded, lastPoll, liveRows, bindLog>>

\* ------------------------------------------------------- RowStream actions
\* one call of RowStream::poll_next
PollNext ==
    /\ pc = "stream"
    /\ streamAlive
    /\ LET r == PollLoop(responses, rows_affected, << >>)
       IN  /\ responses' = r.q
           /\ rows_affected' = r.ra
           /\ pulled' = pulled \o r.taken
           /\ lastPoll' = [item |-> r.item, taken |-> r.taken]
           /\ yielded' = IF r.item = ItemPending THEN yielded ELSE Append(yielded, r.item)
           /\ IF r.item.item = "Row"
              THEN /\ liveRows' = liveRows + 1
                   /\ strong' = ArcClone(streamStmt, strong)
              ELSE UNCHANGED <<liveRows, strong>>
    /\ UNCHANGED <<connVars, sent, buf, stmtParams, dropVars, callerHandles, pc, op, opHolds,
                   result, consumed, qstate, rows, streamAlive, streamStmt, bindLog>>

\* the caller drops the RowStream: its Statement handle and its reply channel go
DropStream ==
    /\ pc = "stream"
    /\ streamAlive
    /\ streamAlive' = FALSE
    /\ pc' = "done"
    /\ responses' = << >>
    /\ LET d == ArcDrop(streamStmt, strong, sent)
       IN  strong' = d.strong /\ sent' = d.sent
    /\ UNCHANGED <<connVars, buf, stmtParams, dropVars, callerHandles, op, opHolds, result,
                   consumed, qstate, rows, streamStmt, rows_affected, pulled, yielded,
                   lastPoll, liveRows, bindLog>>

\* the caller drops a Row the stream yielded: the Row's Statement handle goes
DropRow ==
    /\ liveRows >= 1
    /\ liveRows' = liveRows - 1
    /\ LET d == ArcDrop(streamStmt, strong, sent)
       IN  strong' = d.strong /\ sent' = d.sent
    /\ UNCHANGED <<connVars, buf, stmtParams, dropVars, callerHandles, pc, op, opHolds, result,
                   responses, consumed, qstate, rows, streamAlive, streamStmt,
                   rows_affected, pulled, yielded, lastPoll, bindLog>>

\* ------------------------------------------------------------ environment
\* the replies a server can send
ReplyMsgs ==
    {BParseComplete, BBindComplete, BParameterDescription, BNoData,
     BEmptyQueryResponse, BPortalSuspended, BReadyForQuery, BErrorResponse}
    \cup { BRowDescription(f) : f \in FieldLists }
    \cup { BDataRow(i, k) : i \in RowIds, k \in BOOLEAN }
    \cup { BCommandComplete(t, v) : t \in StreamTags, v \in BOOLEAN }

\* The whole system: every operation, every reply.
Next ==
    \/ CloneHandle
    \/ DropHandle
    \/ DropClient
    \/ CloseConn
    \/ \E m \in ReplyMsgs : ServerReply(m)
    \/ \E params \in ParamLists : Query(params)
    \/ \E params \in ParamLists : Execute(params)
    \/ StartReply
    \/ ExecuteReply
    \/ \E q \in BOOLEAN, typed \in TypedLists : QueryTyped(q, typed)
    \/ \E known \in SUBSET FieldOids : AdhocReply(known)
    \/ \E n \in MaxRowsArgs : QueryPortal(n)
    \/ PollNext
    \/ DropStream
    \/ DropRow
    \/ \E name \in DropNames : NewStatement(name)
    \/ \E name \in DropNames : CloneOther(name)
    \/ \E name \in DropNames : DropOther(name)

Spec == Init /\ [][Next]_vars

\* ------------------------------------------------ binding: the entry points
\* Every entry point with every parameter list, up to the point where the
\* call has failed or has sent its request and waits for the first reply;
\* the caller clones and drops handles, the client and the connection go away.
NextBind ==
    \/ CloneHandle
    \/ DropHandle
    \/ DropClient
    \/ CloseConn
    \/ \E params \in ParamLists : Query(params)
    \/ \E params \in ParamLists : Execute(params)
    \/ \E q \in BOOLEAN, typed \in TypedLists : QueryTyped(q, typed)
    \/ \E n \in MaxRowsArgs : QueryPortal(n)

SpecBind == Init /\ [][NextBind]_vars

\* the batches that carry a message of an operation's own request
RequestBatches(sn) ==
    { i \in 1..Len(sn) : \E j \in 1..Len(sn[i]) : sn[i][j].t \in RequestTags }
CloseBatch(name) == <<MsgClose("S", name), MsgSync>>

\* C1: a parameter list whose length differs from the declared type count
\* makes binding fail with the count-mismatch error, expected = the declared
\* count and actual = the supplied count; no encode_format and no to_sql ran,
\* the buffer is as it was, and the operation ends with that error without
\* its request having gone to the connection.
C1_CountMismatch ==
    (bindLog.called /\ Len(bindLog.params) # Len(bindLog.types)) =>
        /\ ~bindLog.res.ok
        /\ bindLog.res.error.kind = "Parameters"
        /\ bindLog.res.error.expected = Len(bindLog.types)
        /\ bindLog.res.error.actual = Len(bindLog.params)
        /\ bindLog.fmtCalls = << >>
        /\ bindLog.toSqlCalls = << >>
        /\ bindLog.after = bindLog.before
        /\ buf = << >>
        /\ pc = "done"
        /\ result = ResultErr(bindLog.res.error)
        /\ RequestBatches(sent) = {}
        /\ consumed = << >>

C1_Witness ==
    /\ bindLog.called
    /\ Len(bindLog.params) = 2
    /\ Len(bindLog.types) = 1
    /\ op = "execute"
    /\ result.status = "err"

\* the parameters of the last bind call all serialize before index i (1-based)
\* and the one at i fails to convert
FailsFirstAt(i) ==
    /\ bindLog.called
    /\ Len(bindLog.params) = Len(bindLog.types)
    /\ i \in 1..Len(bindLog.params)
    /\ bindLog.params[i].out = "Err"
    /\ \A j \in 1..(i - 1) : bindLog.params[j].out \in {"No", "Yes"}

\* C2: when a right-length parameter list first fails to convert at zero-based
\* index i, binding fails with the conversion error carrying exactly i, to_sql
\* ran for the indices 0..i and for no later one, and the operation ends with
\* that error.
C2_ConversionIndex ==
    \A i \in 1..MaxParams + 1 :
        FailsFirstAt(i) =>
            /\ bindLog.res = Err(ErrorToSql(i - 1))
            /\ bindLog.toSqlCalls = [k \in 1..i |-> k - 1]
            /\ result = ResultErr(ErrorToSql(i - 1))
            /\ pc = "done"

C2_Witness ==
    /\ FailsFirstAt(2)
    /\ op = "query"
    /\ result = ResultErr(ErrorToSql(1))

\* a step in which an entry point's parameter binding fails
BindFails ==
    /\ pc = "idle"
    /\ pc' # "idle"
    /\ bindLog'.called
    /\ ~bindLog'.res.ok

\* C3 as stated: a call whose parameter binding fails returns without the
\* connection's send being called, so nothing is handed to the connection
\* during it.
C3_NoSendAtAll == [][BindFails => sent' = sent]_vars

\* C3 as amended: a call whose parameter binding fails returns that error
\* with no reply channel and no message of its own batch handed to the
\* connection; the one send that may happen is the teardown (Close, Sync) of
\* the Statement that query/execute owned, when it was the last handle.
C3_NoRequestSent ==
    [][BindFails =>
        /\ pc' = "done"
        /\ result' = ResultErr(bindLog'.res.error)
        /\ responses' = << >>
        /\ consumed' = << >>
        /\ buf' = << >>
        /\ \/ sent' = sent
           \/ /\ sent' = Append(sent, CloseBatch(Named))
              /\ op' \in {"query", "execute"}
              /\ strong[Named] = 1
              /\ strong'[Named] = 0]_vars

C3_Witness ==
    /\ op = "query_typed"
    /\ pc = "done"
    /\ bindLog.called
    /\ bindLog.res = Err(ErrorToSql(1))
    /\ bindLog.before # << >>
    /\ sent = << >>

\* ------------------------------------------------ the ad-hoc state machine
\* query_with_param_types with a well-formed request; the server answers with
\* any of the replies the state machine looks at, in any order.
AdhocTyped == { << >>, <<[p |-> [fmt |-> 1, out |-> "No"], ty |-> "int4"]>> }
AdhocMsgs ==
    {BParseComplete, BBindComplete, BParameterDescription, BNoData, BErrorResponse,
     BReadyForQuery, BDataRow(1, TRUE)}
    \cup { BRowDescription(f) : f \in FieldLists }

NextAdhoc ==
    \/ \E typed \in AdhocTyped : QueryTyped(TRUE, typed)
    \/ \E m \in AdhocMsgs : ServerReply(m)
    \/ \E known \in SUBSET FieldOids : AdhocReply(known)

SpecAdhoc == Init /\ [][NextAdhoc]_vars

\* the reply sequences the transition table accepts
IsAccepted(c) ==
    /\ Len(c) = 4
    /\ c[1].t = "ParseComplete"
    /\ c[2].t = "BindComplete"
    /\ c[3].t = "ParameterDescription"
    /\ c[4].t \in {"RowDescription", "NoData"}

\* the state the table gives after n replies of an accepted sequence
StateAfter(n) ==
    CASE n = 0 -> "Empty"
      [] n = 1 -> "ParseCompleted"
      [] n = 2 -> "BindCompleted"
      [] n = 3 -> "ParameterDescribed"
      [] OTHER -> "Final"

IsAcceptedPrefix(c) ==
    /\ Len(c) <= 4
    /\ Len(c) >= 1 => c[1].t = "ParseComplete"
    /\ Len(c) >= 2 => c[2].t = "BindComplete"
    /\ Len(c) >= 3 => c[3].t = "ParameterDescription"
    /\ Len(c) >= 4 => c[4].t \in {"RowDescription", "NoData"}

AdhocFailed == op = "query_typed" /\ consumed # << >> /\ result.status = "err"

\* C4 as stated: the machine reaches Final exactly for the reply sequences
\* ParseComplete, BindComplete, ParameterDescription, RowDescription|NoData,
\* and every other reply prefix without an ErrorResponse fails with the
\* unexpected-message error.
C4_FinalExactly ==
    op = "query_typed" =>
        /\ qstate.tag = "Final" <=> IsAccepted(consumed)
        /\ (AdhocFailed /\ consumed[Len(consumed)].t # "ErrorResponse") =>
               result.error = ErrorUnexpectedMessage

\* C4 as amended: Final is reached only for those sequences, and for each of
\* them unless reading a RowDescription field or resolving a field's type
\* fails (the call then fails with that error); every other reply prefix ends
\* at its first reply that is not the expected one, with the unexpected-message
\* error (the server's error for an ErrorResponse), and never reaches Final.
C4_FinalOnlyAccepted ==
    op = "query_typed" =>
        /\ qstate.tag = "Final" => IsAccepted(consumed) /\ result = ResultStream
        /\ pc = "adhoc" =>
               /\ IsAcceptedPrefix(consumed)
               /\ Len(consumed) < 4
               /\ qstate.tag = StateAfter(Len(consumed))
        /\ IsAccepted(consumed) =>
               \/ qstate.tag = "Final"
               \/ /\ consumed[4].t = "RowDescription"
                  /\ result \in {ResultErr(ErrorParse), ResultErr(ErrorGetType)}
                  /\ result = ResultErr(ErrorParse) =>
                         \E i \in 1..Len(consumed[4].fields) :
                             ~consumed[4].fields[i].readable
        /\ (AdhocFailed /\ ~IsAccepted(consumed)) =>
               /\ qstate.tag = StateAfter(Len(consumed) - 1)
               /\ IsAcceptedPrefix(SubSeq(consumed, 1, Len(consumed) - 1))
               /\ ~IsAcceptedPrefix(consumed)
               /\ result.error = IF consumed[Len(consumed)].t = "ErrorResponse"
                                 THEN ErrorDb ELSE ErrorUnexpectedMessage

C4_Witness ==
    /\ op = "query_typed"
    /\ qstate.tag = "Final"
    /\ consumed[4].t = "RowDescription"
    /\ Len(qstate.columns) = 2

\* ----------------------------------------------------------- the RowStream
\* A RowStream from query or query_portal, pulled by its caller while the
\* server's replies arrive, in any order and of any kind the stream looks at.
OkParams(types) == [i \in 1..Len(types) |-> [fmt |-> 1, out |-> "No"]]
StreamMsgs ==
    {BDataRow(1, TRUE), BDataRow(2, TRUE), BDataRow(1, FALSE),
     BCommandComplete(TagSelect2, TRUE), BCommandComplete(TagInsert01, TRUE),
     BPortalSuspended,
     BReadyForQuery, BErrorResponse, BBindComplete}

NextStream ==
    \/ Query(OkParams(stmtParams))
    \/ QueryPortal(1)
    \/ \E m \in StreamMsgs : ServerReply(m)
    \/ StartReply
    \/ PollNext

\* the prepared statement declares one parameter
InitOne == Init /\ stmtParams = DeclaredTypes(1)

SpecStream == InitOne /\ [][NextStream]_vars

\* p is n DataRow messages a Row can be built from, then the replies in tail
RowsThen(p, tail) ==
    /\ Len(p) >= Len(tail)
    /\ SubSeq(p, Len(p) - Len(tail) + 1, Len(p)) = tail
    /\ \A i \in 1..(Len(p) - Len(tail)) : p[i].t = "DataRow" /\ p[i].ok
RowItems(p, n) == [i \in 1..n |-> ItemRow(p[i].id)]

\* the count a command tag states
TagCount(tag) == IF tag = TagSelect2 THEN 2 ELSE 1

\* C5: over the replies DataRow * n, CommandComplete with count k,
\* ReadyForQuery, a RowStream yields the n rows in reply order and then ends,
\* and rows_affected() is then k.
C5_RowsThenEnd ==
    \A tag \in {TagSelect2, TagInsert01} :
        RowsThen(pulled, <<BCommandComplete(tag, TRUE), BReadyForQuery>>) =>
            /\ yielded = Append(RowItems(pulled, Len(pulled) - 2), ItemEnd)
            /\ rows_affected = Some(TagCount(tag))
            /\ responses = << >> => lastPoll.item \in {ItemEnd, ItemPending}

C5_Witness ==
    /\ pulled = <<BDataRow(2, TRUE), BDataRow(1, TRUE),
                  BCommandComplete(TagSelect2, TRUE), BReadyForQuery>>
    /\ yielded = <<ItemRow(2), ItemRow(1), ItemEnd>>
    /\ rows_affected = Some(2)

StreamEnded == \E i \in 1..Len(yielded) : yielded[i] = ItemEnd

\* C6 as stated: rows_affected() is None in every state in which poll_next
\* has not yet returned the end of the stream.
C6_NoneUntilEnd == (streamAlive /\ ~StreamEnded) => rows_affected = None

\* C7 as stated: an error the stream yields is its last item: after it no
\* pull yields a row or another error.
C7_ErrorIsLast ==
    \A i \in 1..Len(yielded) : \A j \in (i + 1)..Len(yielded) :
        yielded[i].item = "Err" => yielded[j] = ItemEnd

\* C10: a query_portal RowStream over DataRow * n, PortalSuspended,
\* ReadyForQuery yields the n rows, then ends, and rows_affected() is still None.
C10_PortalSuspended ==
    (op = "query_portal" /\ RowsThen(pulled, <<BPortalSuspended, BReadyForQuery>>)) =>
        /\ yielded = Append(RowItems(pulled, Len(pulled) - 2), ItemEnd)
        /\ rows_affected = None

C10_Witness ==
    /\ op = "query_portal"
    /\ pulled = <<BDataRow(1, TRUE), BDataRow(2, TRUE), BPortalSuspended, BReadyForQuery>>
    /\ lastPoll.item = ItemEnd
    /\ rows_affected = None

\* ------------------------------------------------- statement lifetime
\* Handles of the prepared Statement are cloned and dropped by the caller, moved
\* into query, cloned by query_portal, held by the RowStream and cloned into
\* every Row, while the client and the connection may go away at any point.
LifeMsgs == {BBindComplete, BDataRow(1, TRUE), BReadyForQuery}

NextLife ==
    \/ CloneHandle
    \/ DropHandle
    \/ DropClient
    \/ CloseConn
    \/ Query(OkParams(stmtParams))
    \/ QueryPortal(0)
    \/ \E m \in LifeMsgs : ServerReply(m)
    \/ StartReply
    \/ PollNext
    \/ DropStream
    \/ DropRow

SpecLife == InitOne /\ [][NextLife]_vars

\* how many batches of sn carry a Close for the statement
RECURSIVE NumClose(_, _)
NumClose(sn, name) ==
    IF sn = << >> THEN 0
    ELSE (IF \E i \in 1..Len(Head(sn)) : Head(sn)[i] = MsgClose("S", name) THEN 1 ELSE 0)
         + NumClose(Tail(sn), name)

\* the handles of the prepared Statement that exist
Holders ==
    callerHandles + (IF opHolds THEN 1 ELSE 0)
    + (IF streamStmt = Named THEN (IF streamAlive THEN 1 ELSE 0) + liveRows ELSE 0)

\* C8: the step that drops the last handle of the Statement hands exactly one
\* Close for its name to the connection when client and connection are alive,
\* and nothing (the step still completes) when either is gone; no other step
\* sends a Close, and a dropped Statement does not come back.
C8_CloseOnLastDrop ==
    [][ /\ (strong[Named] >= 1 /\ strong'[Named] = 0) =>
             IF clientAlive /\ connOpen
             THEN sent' = Append(sent, CloseBatch(Named))
             ELSE sent' = sent
        /\ ~(strong[Named] >= 1 /\ strong'[Named] = 0) =>
             NumClose(sent', Named) = NumClose(sent, Named)
        /\ strong[Named] = 0 => strong'[Named] = 0 ]_vars

\* handles were cloned and dropped, a request went out before, and the last
\* drop sent the Close
C8_Witness ==
    /\ strong[Named] = 0
    /\ Len(sent) = 2
    /\ sent[2] = CloseBatch(Named)
    /\ NumClose(sent, Named) = 1
    /\ clientAlive /\ connOpen

\* C9: a Close for the Statement has been handed to the connection only if
\* no handle of it exists any more: not the caller's, not the running
\* operation's, not the RowStream's, not a yielded Row's.
C9_NoCloseWhileReferenced ==
    /\ strong[Named] = Holders
    /\ NumClose(sent, Named) >= 1 => Holders = 0

\* a stream of query yielded a Row, and the Close went out after caller,
\* stream and row had all let go
C9_Witness ==
    /\ op = "query"
    /\ Len(yielded) >= 1 /\ yielded[1].item = "Row"
    /\ NumClose(sent, Named) = 1
    /\ Holders = 0

\* C11: query takes exactly one reply before it returns.  While it waits it
\* has taken none and returned nothing; the step that takes the first reply
\* either returns the RowStream (the reply was BindComplete; rows_affected is
\* None, nothing is pulled yet, and the replies behind it stay in the channel
\* for the stream's first pull, which takes them from the front) or returns
\* the error (the server's for ErrorResponse, unexpected-message otherwise)
\* and no RowStream.
C11_OneReplyThenStream ==
    [][ op' = "query" =>
          /\ pc' = "start" => consumed' = << >> /\ result' = NoResult /\ ~streamAlive'
          /\ (pc = "start" /\ pc' # "start") =>
                /\ responses # << >>
                /\ consumed' = <<Head(responses)>>
                /\ IF Head(responses) = BBindComplete
                   THEN /\ pc' = "stream" /\ result' = ResultStream /\ streamAlive'
                        /\ rows_affected' = None /\ pulled' = << >> /\ yielded' = << >>
                        /\ responses' = Tail(responses)
                   ELSE /\ pc' = "done" /\ ~streamAlive'
                        /\ result' = ResultErr(IF Head(responses) = BErrorResponse
                                               THEN ErrorDb ELSE ErrorUnexpectedMessage)
          /\ pc' \in {"stream", "done"} => Len(consumed') = 1
          /\ (pc = "stream" /\ pulled = << >> /\ pulled' # << >>) =>
                pulled'[1] = Head(responses)
          /\ streamAlive' => consumed' = <<BBindComplete>> ]_vars

\* the second reply, a DataRow, came out of the stream's first pull
C11_Witness ==
    /\ op = "query"
    /\ consumed = <<BBindComplete>>
    /\ pulled = <<BDataRow(2, TRUE)>>
    /\ yielded = <<ItemRow(2)>>

\* ------------------------------------------------------------ execute
\* execute on the prepared statement while the server's replies arrive, of
\* every kind and in any order.
ExecMsgs ==
    {BBindComplete, BDataRow(1, TRUE), BEmptyQueryResponse, BReadyForQuery,
     BPortalSuspended, BErrorResponse, BNoData}
    \cup { BCommandComplete(tag, TRUE) : tag \in ExecTags }
    \cup { BCommandComplete(TagSelect2, FALSE) }

NextExec ==
    \/ Execute(OkParams(stmtParams))
    \/ \E m \in ExecMsgs : ServerReply(m)
    \/ StartReply
    \/ ExecuteReply

SpecExec == InitOne /\ [][NextExec]_vars

\* the number a command tag states after its last space, 0 if none
TagNumber(tag) ==
    CASE tag = TagSelect2 -> 2
      [] tag = TagInsert01 -> 1
      [] tag = TagUpdate12 -> 12
      [] OTHER -> 0

\* C12: execute enters its loop only after BindComplete, with a count of 0.
\* In the loop a DataRow leaves the count, a CommandComplete (with a readable
\* tag) sets it to the number its tag states, EmptyQueryResponse sets it to
\* 0, and all three keep the call going; ReadyForQuery returns the count as
\* it stands; every other message the channel hands over (PortalSuspended
\* among them) ends the call with the unexpected-message error and no count.
C12_ExecuteLoop ==
    [][ op' = "execute" =>
          /\ (pc = "start" /\ pc' = "exec") =>
                consumed' = <<BBindComplete>> /\ rows' = 0 /\ result' = NoResult
          /\ (pc = "exec" /\ consumed' # consumed) =>
                LET m == Head(responses)
                    loops == pc' = "exec" /\ result' = NoResult
                IN  /\ consumed' = Append(consumed, m)
                    /\ CASE m.t = "DataRow" -> loops /\ rows' = rows
                         [] m.t = "CommandComplete" /\ m.valid ->
                               loops /\ rows' = TagNumber(m.tag)
                         [] m.t = "EmptyQueryResponse" -> loops /\ rows' = 0
                         [] m.t = "ReadyForQuery" ->
                               pc' = "done" /\ result' = ResultRows(rows)
                         [] m.t \in {"PortalSuspended", "BindComplete", "NoData"} ->
                               pc' = "done" /\ result' = ResultErr(ErrorUnexpectedMessage)
                         [] OTHER -> pc' = "done" /\ result'.status = "err"
          /\ result'.status = "rows" =>
                consumed'[Len(consumed')] = BReadyForQuery ]_vars

\* a count was set, reset by EmptyQueryResponse, and returned at ReadyForQuery
C12_Witness ==
    /\ op = "execute"
    /\ consumed = <<BBindComplete, BCommandComplete(TagSelect2, TRUE),
                    BEmptyQueryResponse, BReadyForQuery>>
    /\ result = ResultRows(0)

\* C13 as stated: extract_row_affected gives the number after the tag's last
\* space, 0 when there is none, and never an error: a CommandComplete never
\* fails the execute call whose loop took it, and the call's count is then
\* that number.
C13_NeverAnError ==
    (op = "execute" /\ Len(consumed) >= 2 /\ consumed[1] = BBindComplete
        /\ consumed[Len(consumed)].t = "CommandComplete") =>
        /\ ExtractRowAffected(consumed[Len(consumed)]).ok
        /\ result = NoResult
        /\ pc = "exec"
        /\ rows = TagNumber(consumed[Len(consumed)].tag)

\* C14: query_with_param_types hands the connection one batch, in one send:
\* Parse of the unnamed statement, Bind of the unnamed statement to the
\* unnamed portal, Describe of the statement, Execute of the unnamed portal
\* with row limit 0, Sync, in that order.  The batch is with the connection
\* before the call takes its first reply, and the call sends nothing else.
C14_OneBatchInOrder ==
    [][ op' = "query_typed" =>
          /\ Len(sent') = 1
          /\ LET b == sent'[1]
             IN  /\ Len(b) = 5
                 /\ b[1].t = "Parse" /\ b[1].name = ""
                 /\ b[2].t = "Bind" /\ b[2].statement = "" /\ b[2].portal = ""
                 /\ b[3] = [t |-> "Describe", variant |-> "S", name |-> ""]
                 /\ b[4] = [t |-> "Execute", portal |-> "", max_rows |-> 0]
                 /\ b[5] = [t |-> "Sync"]
          /\ (consumed' # consumed \/ responses' # responses) => sent' = sent ]_vars

\* the whole exchange ran and the one batch is all that was sent
C14_Witness ==
    /\ op = "query_typed"
    /\ result = ResultStream
    /\ Len(consumed) = 4
    /\ Len(sent) = 1
    /\ Len(sent[1][2].values) = 1

\* the step drops a RowStream that has not returned its end
DropsUnfinishedStream == streamAlive /\ ~streamAlive' /\ ~StreamEnded

\* C15 as stated: dropping a RowStream before it is exhausted hands the
\* connection nothing, whatever handles of its Statement exist.
C15_DropSendsNothing == [][ DropsUnfinishedStream => sent' = sent ]_vars

\* C15 as amended: dropping a RowStream before it is exhausted hands the
\* connection nothing on behalf of the request (no Cancel, no Close of a
\* portal); only when the stream's handle is the last one of a Statement made
\* by Statement::new, and client and connection are alive, the drop sends that
\* Statement's teardown batch, Close and Sync, and nothing else.
C15_DropSendsOnlyTeardown ==
    [][ DropsUnfinishedStream =>
          IF streamStmt = Named /\ Holders = 1 /\ clientAlive /\ connOpen
          THEN sent' = Append(sent, CloseBatch(Named))
          ELSE sent' = sent ]_vars

\* a stream from query, never pulled to a row, was dropped holding the last
\* handle: the Close went out with the drop
C15_Witness ==
    /\ op = "query"
    /\ result = ResultStream
    /\ ~streamAlive
    /\ yielded = << >>
    /\ Len(sent) = 2
    /\ sent[2] = CloseBatch(Named)

\* ------------------------------------------------- teardown, by name
\* Statements of every name are made by Statement::new, cloned and dropped,
\* while the client and the connection may go away between any two steps.
NextDrop ==
    \/ \E name \in DropNames : NewStatement(name)
    \/ \E name \in DropNames : CloneOther(name)
    \/ \E name \in DropNames : DropOther(name)
    \/ DropClient
    \/ CloseConn

SpecDrop == Init /\ [][NextDrop]_vars

\* C16 as stated: whatever the Statement's name and the state of client and
\* connection, the drop of the last handle does not panic (it propagates no
\* error: drop returns nothing) and calls send at most once, reading no reply.
C16_TeardownNeverPanics ==
    teardown.ran =>
        /\ ~teardown.panicked
        /\ Len(teardown.sends) <= 1
        /\ responses = << >> /\ consumed = << >>

\* C20: the step that drops the last handle of a Statement calls send at most
\* once; what it hands over is Close of the statement under its name and
\* then Sync, nothing before, between or after, for the empty name as for any
\* other; that batch reaches the connection when client and connection are
\* alive; and the step reads no reply.
C20_TeardownBatch ==
    [][ \A name \in DropNames :
          (others[name] = 1 /\ others'[name] = 0) =>
             LET batch == <<[t |-> "Close", variant |-> "S", name |-> name],
                            [t |-> "Sync"]>>
             IN  /\ teardown'.ran /\ teardown'.name = name
                 /\ teardown'.sends \in {<< >>, <<batch>>}
                 /\ sent' \in {sent, Append(sent, batch)}
                 /\ sent' # sent => teardown'.sends = <<batch>>
                 /\ (clientAlive /\ connOpen /\ name \in {OtherName, Unnamed}) =>
                        sent' = Append(sent, batch)
                 /\ UNCHANGED <<responses, consumed, pulled>> ]_vars

\* a Statement with the empty name was dropped after one with a name
C20_Witness ==
    /\ teardown.ran
    /\ teardown.name = Unnamed
    /\ sent = << <<MsgClose("S", OtherName), MsgSync>>,
                 <<MsgClose("S", Unnamed), MsgSync>> >>

\* p is a prefix of q
IsPrefix(p, q) == Len(p) <= Len(q) /\ SubSeq(q, 1, Len(p)) = p

\* C17: while the stream is open, a step that pulls takes its replies from
\* the front of the channel and leaves the rest there, in order; a pull that
\* yields a row has taken the DataRow of that row last and before it only
\* CommandComplete, EmptyQueryResponse or PortalSuspended; and a step that
\* does not pull takes nothing out of the channel.
C17_NoReadAhead ==
    [][ (pc = "stream" /\ pc' = "stream" /\ streamAlive') =>
          /\ pulled' = pulled => IsPrefix(responses, responses')
          /\ pulled' # pulled =>
                /\ pulled' = pulled \o lastPoll'.taken
                /\ responses = lastPoll'.taken \o responses'
          /\ (yielded' # yielded /\ yielded'[Len(yielded')].item = "Row") =>
                LET t == lastPoll'.taken
                IN  /\ t # << >>
                    /\ t[Len(t)].t = "DataRow"
                    /\ t[Len(t)].id = yielded'[Len(yielded')].id
                    /\ \A i \in 1..(Len(t) - 1) :
                          t[i].t \in {"CommandComplete", "EmptyQueryResponse",
                                      "PortalSuspended"} ]_vars

\* a pull passed over PortalSuspended, yielded the row of the next DataRow,
\* and the replies behind that DataRow are still in the channel
C17_Witness ==
    /\ lastPoll.item = ItemRow(1)
    /\ lastPoll.taken = <<BPortalSuspended, BDataRow(1, TRUE)>>
    /\ responses = <<BDataRow(2, TRUE), BReadyForQuery>>

\* the type a type identifier names in the catalog
CatalogType(oid) == CASE oid = 23 -> "int4" [] oid = 25 -> "text"

\* C18: once the ad-hoc loop has taken ParseComplete, BindComplete,
\* ParameterDescription and then NoData, the state is Final with no column;
\* with RowDescription instead, either the state is Final with one Column per
\* field, in field order, carrying the field's name, the catalog's type for
\* its type identifier, table_oid None exactly when the field's table
\* identifier is 0 (the identifier otherwise) and column_id None exactly when
\* its column position is 0 (the position otherwise), every field having been
\* readable; or the call failed with the read or the type-lookup error, in
\* no Final state and with no RowStream.  An unreadable field always fails it.
C18_ColumnsFromFields ==
    (op = "query_typed" /\ IsAccepted(consumed)) =>
        LET d == consumed[4]
            failed == /\ result \in {ResultErr(ErrorParse), ResultErr(ErrorGetType)}
                      /\ qstate.tag # "Final"
                      /\ ~streamAlive
        IN  IF d.t = "NoData"
            THEN qstate = [tag |-> "Final", columns |-> << >>] /\ result = ResultStream
            ELSE /\ (\E i \in 1..Len(d.fields) : ~d.fields[i].readable) => failed
                 /\ \/ failed
                    \/ /\ qstate.tag = "Final" /\ result = ResultStream /\ streamAlive
                       /\ Len(qstate.columns) = Len(d.fields)
                       /\ \A i \in 1..Len(d.fields) :
                            LET f == d.fields[i]
                                c == qstate.columns[i]
                            IN  /\ f.readable
                                /\ c.name = f.name
                                /\ c.type = CatalogType(f.type_oid)
                                /\ c.table_oid = None <=> f.table_oid = 0
                                /\ f.table_oid # 0 => c.table_oid = <<f.table_oid>>
                                /\ c.column_id = None <=> f.column_id = 0
                                /\ f.column_id # 0 => c.column_id = <<f.column_id>>

\* two fields became two columns, in order; the first has a table but no
\* column position
C18_Witness ==
    /\ op = "query_typed"
    /\ Len(consumed) = 4
    /\ consumed[4] = BRowDescription(<<FieldD, FieldB>>)
    /\ qstate.tag = "Final"
    /\ qstate.columns[1] = [name |-> "d", table_oid |-> <<7>>, column_id |-> << >>,
                            type |-> "int4"]
    /\ qstate.columns[2].name = "b"

\* how far along Empty, ParseCompleted, BindCompleted, ParameterDescribed,
\* Final a state is
QRank(q) ==
    CASE q.tag = "Empty" -> 0
      [] q.tag = "ParseCompleted" -> 1
      [] q.tag = "BindCompleted" -> 2
      [] q.tag = "ParameterDescribed" -> 3
      [] q.tag = "Final" -> 4

\* C19: the loop of query_with_param_types takes at most four replies.  Each
\* reply it takes either moves the state one step forward along Empty,
\* ParseCompleted, BindCompleted, ParameterDescribed, Final, or ends the call
\* with an error; the call returns its RowStream on reaching Final, having
\* taken exactly four replies, takes none afterwards, and the replies behind
\* the fourth stay in the channel, in order, for the RowStream.
C19_AtMostFourReplies ==
    [][ op' = "query_typed" =>
          /\ Len(consumed') <= 4
          /\ consumed' # consumed =>
                /\ pc = "adhoc"
                /\ consumed' = Append(consumed, Head(responses))
                /\ \/ /\ QRank(qstate') = QRank(qstate) + 1
                      /\ pc' = IF QRank(qstate') = 4 THEN "stream" ELSE "adhoc"
                      /\ responses' = Tail(responses)
                   \/ /\ pc' = "done" /\ result'.status = "err"
                      /\ qstate' = qstate /\ ~streamAlive'
          /\ consumed' = consumed => qstate' = qstate
          /\ result' = ResultStream =>
                Len(consumed') = 4 /\ QRank(qstate') = 4 /\ pulled' = << >> ]_vars

\* the call returned on its fourth reply; the fifth and the sixth wait in the
\* channel for the RowStream
C19_Witness ==
    /\ op = "query_typed"
    /\ result = ResultStream
    /\ Len(consumed) = 4
    /\ responses = <<BDataRow(1, TRUE), BReadyForQuery>>

====
